---- MODULE Spec2Model ----
(***************************************************************************)
(* Model of the development tool of oran-o2ims (src/dev.py, src/dev/*.py). *)
(*                                                                         *)
(* One behaviour is one invocation of the tool: the 'setup' command, the   *)
(* 'generate', 'build' or 'push' group, or a direct call of go_install.     *)
(* Every external                                                          *)
(* command the code starts is one step; its exit code and its output are   *)
(* chosen by the environment.  'log' records the external commands and the *)
(* filesystem operations of the installer (or command) that is running.    *)
(***************************************************************************)
EXTENDS Integers, Sequences, FiniteSets, TLC

\* ------------------------------------------------------------------ bounds

\* Exit codes an external command can return are 0..MaxExit.
MaxExit == 1

\* ------------------------------------------------------- values and helpers

\* Python's None, for the variables that hold a string or None.
NoneV == "<None>"

\* subprocess.run raised instead of returning an exit code (the program is
\* not executable, for example).
Raised == -1

ExitCodes == 0..MaxExit

Outcomes == ExitCodes \cup {Raised}

\* Messages of the exceptions the code raises.
ErrGoMissing == "The 'go' tool isn't available"

ErrNoVersion == "Failed to find version for tool"

ErrGoEnv == "Failed to get Go environment variable"

ErrNoBin == "Failed to select a suitable binaries directory"

ErrOSError == "OSError"

\* One entry of the log: an external command with its outcome, or a
\* filesystem operation (cmd starts with "fs:").  arg holds the path
\* segments, names or files the command is about, ver the version of
\* 'go install <tool>@<version>', text the captured standard output.
Cmd(c, a, v, o) == [cmd |-> c, arg |-> a, ver |-> v, out |-> o, text |-> ""]

\* A command run through command.eval, which captures the output.
Eval(c, a, o, t) == [cmd |-> c, arg |-> a, ver |-> "", out |-> o, text |-> t]

\* The tools that setup installs with go_install: path segments (the result
\* of tool.split("/")) and the version the installer passes.
Ginkgo == <<"github.com", "onsi", "ginkgo", "v2", "ginkgo">>

Mockgen == <<"go.uber.org", "mock", "mockgen">>

Kustomize == <<"sigs.k8s.io", "kustomize", "kustomize", "v5">>

ControllerGen == <<"sigs.k8s.io", "controller-tools", "cmd", "controller-gen">>

SetupEnvtest == <<"sigs.k8s.io", "controller-runtime", "tools", "setup-envtest">>

GoTools == {Ginkgo, Mockgen, Kustomize, ControllerGen, SetupEnvtest}

\* A setup that calls an installer before install_go.
SetupOrderGoSecond ==
    << "install_controller_gen", "install_go", "install_ginkgo",
       "install_golangci_lint", "install_kustomize", "install_mockgen",
       "install_operator_sdk", "install_opm", "install_setup_envtest",
       "install_spectral" >>

\* The installers, in the order setup calls them.
SetupOrder ==
    << "install_go", "install_controller_gen", "install_ginkgo",
       "install_golangci_lint", "install_kustomize", "install_mockgen",
       "install_operator_sdk", "install_opm", "install_setup_envtest",
       "install_spectral" >>

\* The arguments each go_install based installer passes.
GoInstallArgs(installer) ==
    CASE installer = "install_ginkgo" -> [tool |-> Ginkgo, version |-> NoneV]
      [] installer = "install_mockgen" -> [tool |-> Mockgen, version |-> "v<MOCKGEN>"]
      [] installer = "install_kustomize" -> [tool |-> Kustomize, version |-> "v<KUSTOMIZE>"]
      [] installer = "install_controller_gen" ->
            [tool |-> ControllerGen, version |-> "v<CONTROLLER_GEN>"]
      [] installer = "install_setup_envtest" -> [tool |-> SetupEnvtest, version |-> "latest"]

GoInstallers == {"install_ginkgo", "install_mockgen", "install_kustomize",
                 "install_controller_gen", "install_setup_envtest"}

\* The binary each release-artifact installer looks for and writes.
ReleaseBinary(installer) ==
    CASE installer = "install_golangci_lint" -> "golangci-lint"
      [] installer = "install_opm" -> "opm"
      [] installer = "install_operator_sdk" -> "operator-sdk"
      [] installer = "install_spectral" -> "spectral"

ReleaseInstallers == {"install_golangci_lint", "install_opm",
                      "install_operator_sdk", "install_spectral"}

ReleaseBinaries == {ReleaseBinary(x) : x \in ReleaseInstallers}

\* re.match(r"^v\d+$", name) over the segments that occur.
IsMajorVersion(name) == name \in {"v2", "v5"}

\* The name of the binary of a tool: the last segment, or the one before it
\* when the last one is a major version.
BinaryName(segments) ==
    LET name == segments[Len(segments)]
    IN  IF IsMajorVersion(name) THEN segments[Len(segments) - 1] ELSE name

\* segments[0:i] (joined with "/", which keeps the segments apart).
Package(segments, k) == SubSeq(segments, 1, k)

\* range(len(segments)-1, 2, -1): the first index and the test for more.
FirstIndex(segments) == Len(segments) - 1

InRange(k) == k > 2

\* Versions a 'go list -m' lookup can print (stripped standard output).
ListOutputs == {"", "v2.9.5", "v2.13.0"}

\* A go_install that looks the version up even when one was passed.
NeedsLookupAlways(v) == TRUE

\* `if version is None` of go_install.
NeedsLookup(v) == v = NoneV

\* A probing loop without its break.
ProbeNeverBreaks(code) == FALSE

\* `if code == 0: break` of the probing loop.
ProbeBreaks(code) == code = 0

\* An installer with the test for the binary inverted.
AlreadyInstalledInverted(b) == b = NoneV

\* `if binary is not None: return` of the installers.
AlreadyInstalled(b) == b # NoneV

\* ---------------------------------------------------------------- paths

\* Python values that are compared with ==: a pathlib.Path and a str are
\* never equal, whatever their text.
PathOf(text) == [t |-> "Path", v |-> text]

StrOf(text) == [t |-> "str", v |-> text]

LocalBin == "/work/.local/bin"

RepoBin == "/work/oran-o2ims/bin"

GoBinDir == "/home/dev/go/bin"

GoRootDir == "/usr/lib/go"

GoRootBin == "/usr/lib/go/bin"

OptGoDir == "/opt/go"

OptGoBin == "/opt/go/bin"

UsrBin == "/usr/bin"

\* The directories PATH can list.
PathDirs == {LocalBin, RepoBin, GoBinDir, GoRootBin, UsrBin}

\* pathlib.Path(root) / "bin"
BinUnder(root) ==
    CASE root = GoRootDir -> PathOf(GoRootBin)
      [] root = OptGoDir -> PathOf(OptGoBin)
      [] OTHER -> PathOf("bin")

\* What 'go env <var>' can print.
EnvOutputs(var) ==
    CASE var = "GOBIN" -> {"", GoBinDir}
      [] var = "GOROOT" -> {GoRootDir, OptGoDir}
      [] var = "GOOS" -> {"linux"}
      [] var = "GOARCH" -> {"amd64", "arm64"}

EnvVars == {"GOBIN", "GOROOT", "GOOS", "GOARCH"}

\* ------------------------------------------------------------------ state

VARIABLES
    entry,          \* the invocation: command line or function call
    pc,             \* position of the program
    step,           \* index in SetupOrder of the running installer
    PATH,           \* the PATH variable: a set of pathlib.Path
    cache,          \* functools.cache of go_env: variable -> value or None
    envRuns,        \* how often 'go env <var>' was started
    log,            \* commands and filesystem operations of the running call
    files,          \* binaries in the install directory, and the tarball
    tmp,            \* the temporary directory of install_golangci_lint
    result,         \* "running", "ok" or the message of the exception
    tool,           \* go_install: segments of the tool
    versionArg,     \* go_install: the version argument as passed
    version,        \* go_install: the local variable 'version'
    i,              \* go_install: loop index
    binary,         \* result of shutil.which: NoneV, a path, or "?" before
    bin,            \* the selected install directory
    platform,       \* go_env("GOOS")
    architecture,   \* go_env("GOARCH")
    queue,          \* generate: the steps still to invoke
    bundleStep      \* generate bundle: the command that runs next

vars == << entry, pc, step, PATH, cache, envRuns, log, files, tmp, result,
           tool, versionArg, version, i, binary, bin, platform, architecture,
           queue, bundleStep >>

genVars == << queue, bundleStep >>

goVars == << tool, versionArg, version, i >>

relVars == << bin, platform, architecture, files, tmp >>

\* The locals of the calls, before a call starts.
Unset == "?"

\* The local 'bin' before select_bin_directory returned.
NoBin == [t |-> "None", v |-> ""]

\* ------------------------------------------------------------ invocations

GenerateSteps == << "mocks", "manifests", "deep_copy", "bundle" >>

\* defaults.IMAGE_REPOSITORY and defaults.IMAGE_TAG, joined with ":".
DefaultImage == <<"quay.io/openshift-kni/oran-o2ims", "latest">>

\* Another value of the --image option.
OtherImage == <<"registry.example.com/o2ims", "dev">>

\* defaults.py: the image and the catalog bundle image.
IMAGE_REPOSITORY == "quay.io/openshift-kni/oran-o2ims"

IMAGE_TAG == "latest"

BUNDLE_IMAGE_REPOSITORY == "quay.io/openshift-kni/oran-o2ims-bundle"

BUNDLE_IMAGE_TAG == IMAGE_TAG

\* Values of the --repository and --tag options: NoneV when the option is
\* not on the command line.
RepositoryOptions == {NoneV, "registry.example.com/o2ims"}

TagOptions == {NoneV, "dev"}

\* The subcommands of the 'build' and 'push' groups (click names them after
\* the functions, with "-" for "_").
BuildCommands == {"binary", "image", "bundle-image"}

PushCommands == {"image", "bundle-image"}

Entries ==
    {[cmd |-> "setup", sub |-> NoneV, tool |-> <<>>, version |-> NoneV,
      image |-> DefaultImage, repository |-> NoneV, tag |-> NoneV]}
    \cup {[cmd |-> "go_install", sub |-> NoneV, tool |-> t, version |-> v,
           image |-> DefaultImage, repository |-> NoneV, tag |-> NoneV] :
            t \in GoTools, v \in {NoneV, "v1.2.3"}}
    \cup {[cmd |-> "generate", sub |-> s, tool |-> <<>>, version |-> NoneV,
           image |-> DefaultImage, repository |-> NoneV, tag |-> NoneV] :
            s \in {NoneV, "mocks", "manifests", "deep_copy", "bundle"}}
    \cup {[cmd |-> "generate", sub |-> "bundle", tool |-> <<>>,
           version |-> NoneV, image |-> OtherImage, repository |-> NoneV,
           tag |-> NoneV]}
    \cup {[cmd |-> "build", sub |-> s, tool |-> <<>>, version |-> NoneV,
           image |-> DefaultImage, repository |-> NoneV, tag |-> NoneV] :
            s \in {NoneV, "binary"}}
    \cup {[cmd |-> "build", sub |-> s, tool |-> <<>>, version |-> NoneV,
           image |-> DefaultImage, repository |-> r, tag |-> t] :
            s \in {"image", "bundle-image"}, r \in RepositoryOptions,
            t \in TagOptions}
    \cup {[cmd |-> "push", sub |-> NoneV, tool |-> <<>>, version |-> NoneV,
           image |-> DefaultImage, repository |-> NoneV, tag |-> NoneV]}
    \cup {[cmd |-> "push", sub |-> s, tool |-> <<>>, version |-> NoneV,
           image |-> DefaultImage, repository |-> r, tag |-> t] :
            s \in PushCommands, r \in RepositoryOptions, t \in TagOptions}

Init ==
    /\ entry \in Entries
    /\ pc = "start"
    /\ step = 0
    /\ PATH \in SUBSET {PathOf(d) : d \in PathDirs}
    /\ cache = [v \in EnvVars |-> NoneV]
    /\ envRuns = [v \in EnvVars |-> 0]
    /\ log = <<>>
    /\ files = [b \in ReleaseBinaries \cup {"tarball", "digest"} |-> "absent"]
    /\ tmp = "none"
    /\ result = "running"
    /\ tool = <<>>
    /\ versionArg = NoneV
    /\ version = NoneV
    /\ i = 0
    /\ binary = Unset
    /\ bin = NoBin
    /\ platform = Unset
    /\ architecture = Unset
    /\ queue = <<>>
    /\ bundleStep = 0

\* ------------------------------------------------------- control helpers

\* An exception reaches the process boundary: the invocation ends.
Raise(msg) ==
    /\ pc' = "done"
    /\ result' = msg
    /\ step' = step

\* The running installer returns: setup goes on with the next one; a direct
\* call ends.
Return ==
    IF entry.cmd = "setup"
    THEN /\ pc' = "setup"
         /\ step' = step + 1
         /\ result' = result
    ELSE /\ pc' = "done"
         /\ step' = step
         /\ result' = "ok"

\* subprocess.run raises when the command could not be started, and only
\* then: command.run and command.eval do not look at the exit code.
RunRaises(outcome) == outcome = Raised

\* The outcomes of a 'go' command: setup has found 'go' on the search path
\* before it runs one, so the command starts; a direct call has not.
GoOutcomes == IF entry.cmd = "setup" THEN ExitCodes ELSE Outcomes

\* ------------------------------------------------------------- dispatch

\* The command line is parsed and the command's function is entered.
Start ==
    /\ pc = "start"
    /\ IF entry.cmd = "setup"
       THEN /\ pc' = "setup"
            /\ step' = 1
            /\ UNCHANGED goVars
       ELSE IF entry.cmd \in {"generate", "build", "push"}
       THEN /\ pc' = entry.cmd
            /\ step' = 0
            /\ UNCHANGED goVars
       ELSE /\ pc' = "go_install"
            /\ step' = 0
            /\ tool' = entry.tool
            /\ versionArg' = entry.version
            /\ version' = entry.version
            /\ i' = 0
    /\ UNCHANGED << entry, PATH, cache, envRuns, log, files, tmp, result,
                    binary, bin, platform, architecture, genVars >>

\* setup: call the next installer, or finish after the last one.
SetupNext ==
    /\ pc = "setup"
    /\ IF step > Len(SetupOrder)
       THEN /\ pc' = "done"
            /\ result' = "ok"
            /\ UNCHANGED << goVars, log, binary, bin, platform, architecture >>
       ELSE LET installer == SetupOrder[step] IN
            /\ result' = result
            /\ log' = <<>>
            /\ binary' = Unset
            /\ bin' = NoBin
            /\ platform' = Unset
            /\ architecture' = Unset
            /\ IF installer \in GoInstallers
               THEN /\ pc' = "go_install"
                    /\ tool' = GoInstallArgs(installer).tool
                    /\ versionArg' = GoInstallArgs(installer).version
                    /\ version' = GoInstallArgs(installer).version
                    /\ i' = 0
               ELSE /\ pc' = IF installer = "install_go" THEN "install_go"
                             ELSE "release"
                    /\ tool' = <<>>
                    /\ versionArg' = NoneV
                    /\ version' = NoneV
                    /\ i' = 0
    /\ UNCHANGED << entry, step, PATH, cache, envRuns, files, tmp, genVars >>

\* install_go: shutil.which("go"), and the exception when it is missing.
install_go ==
    /\ pc = "install_go"
    /\ \E found \in {NoneV, "/usr/bin/go"} :
        /\ binary' = found
        /\ IF AlreadyInstalled(found) THEN Return ELSE Raise(ErrGoMissing)
    /\ UNCHANGED << entry, PATH, cache, envRuns, log, files, tmp, goVars,
                    bin, platform, architecture, genVars >>

\* ------------------------------------------------------------ go_install

\* go_install up to the loop: the binary's name, shutil.which, and the
\* choice between the explicit version and the lookup.
go_install_check ==
    /\ pc = "go_install"
    /\ \E found \in {NoneV, BinaryName(tool)} :
        /\ binary' = found
        /\ IF AlreadyInstalled(found)
           THEN /\ Return
                /\ i' = i
           ELSE /\ step' = step
                /\ result' = result
                /\ IF NeedsLookup(version)
                   THEN /\ i' = FirstIndex(tool)
                        /\ pc' = IF InRange(FirstIndex(tool)) THEN "probe"
                                 ELSE "version_check"
                   ELSE /\ i' = i
                        /\ pc' = "install"
    /\ UNCHANGED << entry, PATH, cache, envRuns, log, files, tmp, tool,
                    versionArg, version, bin, platform, architecture, genVars >>

\* One pass of the loop: 'go list -f {{.Version}} -m <package>' through
\* command.eval, whose output is assigned to 'version' whatever the code.
go_install_probe ==
    /\ pc = "probe"
    /\ \E code \in GoOutcomes, output \in ListOutputs :
        /\ log' = Append(log, Eval("go list", Package(tool, i), code, output))
        /\ IF RunRaises(code)
           THEN /\ Raise(ErrOSError)
                /\ UNCHANGED << version, i >>
           ELSE /\ version' = output
                /\ step' = step
                /\ result' = result
                /\ IF ProbeBreaks(code)
                   THEN /\ i' = i
                        /\ pc' = "version_check"
                   ELSE /\ i' = i - 1
                        /\ pc' = IF InRange(i - 1) THEN "probe"
                                 ELSE "version_check"
    /\ UNCHANGED << entry, PATH, cache, envRuns, files, tmp, tool,
                    versionArg, binary, bin, platform, architecture, genVars >>

\* After the loop: the exception when 'version' is still None.
go_install_version_check ==
    /\ pc = "version_check"
    /\ IF version = NoneV
       THEN Raise(ErrNoVersion)
       ELSE /\ pc' = "install"
            /\ step' = step
            /\ result' = result
    /\ UNCHANGED << entry, PATH, cache, envRuns, log, files, tmp, goVars,
                    binary, bin, platform, architecture, genVars >>

\* 'go install <tool>@<version>' through command.run, which does not look
\* at the exit code.
go_install_run ==
    /\ pc = "install"
    /\ \E code \in GoOutcomes :
        /\ log' = Append(log, Cmd("go install", tool, version, code))
        /\ IF RunRaises(code) THEN Raise(ErrOSError) ELSE Return
    /\ UNCHANGED << entry, PATH, cache, envRuns, files, tmp, goVars,
                    binary, bin, platform, architecture, genVars >>

go_install ==
    \/ go_install_check
    \/ go_install_probe
    \/ go_install_version_check
    \/ go_install_run

\* ----------------------------------------------------------------- go_env

\* A go_env without functools.cache: the command runs at every call.
go_env_uncached(var, code, output) ==
    LET log2 == Append(log, Eval("go env", <<var>>, code, output))
        runs2 == [envRuns EXCEPT ![var] = @ + 1]
    IN  IF code # 0
        THEN [raised |-> TRUE, msg |-> ErrGoEnv, value |-> NoneV,
              cache |-> cache, log |-> log2, runs |-> runs2]
        ELSE [raised |-> FALSE, msg |-> "", value |-> output,
              cache |-> [cache EXCEPT ![var] = output],
              log |-> log2, runs |-> runs2]

\* go_env(var), memoised by functools.cache: a cached value is returned
\* without a command; otherwise 'go env <var>' runs through command.eval and
\* its output is cached unless the exit code makes go_env raise.  code and
\* output are what the command would return.  The result names the new
\* cache, log and counters, and whether an exception leaves go_env.
go_env(var, code, output) ==
    IF cache[var] # NoneV
    THEN [raised |-> FALSE, msg |-> "", value |-> cache[var],
          cache |-> cache, log |-> log, runs |-> envRuns]
    ELSE LET log2 == Append(log, Eval("go env", <<var>>, code, output))
             runs2 == [envRuns EXCEPT ![var] = @ + 1]
         IN  IF RunRaises(code)
             THEN [raised |-> TRUE, msg |-> ErrOSError, value |-> NoneV,
                   cache |-> cache, log |-> log2, runs |-> runs2]
             ELSE IF code # 0
             THEN [raised |-> TRUE, msg |-> ErrGoEnv, value |-> NoneV,
                   cache |-> cache, log |-> log2, runs |-> runs2]
             ELSE [raised |-> FALSE, msg |-> "", value |-> output,
                   cache |-> [cache EXCEPT ![var] = output],
                   log |-> log2, runs |-> runs2]

\* ---------------------------------------------------- select_bin_directory

\* A selection that tests the directory (`if bin:`) and not PATH.
InPathUntested(value) == TRUE

\* `bin in path` for a pathlib.Path or a str on the left.
InPath(value) == value \in PATH

\* The release-artifact installer that is running.
Installer == SetupOrder[step]

\* A release-artifact installer up to the selection of the directory:
\* shutil.which and the early return.
release_check ==
    /\ pc = "release"
    /\ \E found \in {NoneV, ReleaseBinary(Installer)} :
        /\ binary' = found
        /\ IF AlreadyInstalled(found)
           THEN Return
           ELSE /\ pc' = "select_bin"
                /\ step' = step
                /\ result' = result
    /\ UNCHANGED << entry, PATH, cache, envRuns, log, goVars, relVars, genVars >>

\* select_bin_directory, the two directories of the project.
select_bin_project ==
    /\ pc = "select_bin"
    /\ IF InPath(PathOf(LocalBin))
       THEN /\ bin' = StrOf(LocalBin)
            /\ pc' = "goos"
       ELSE IF InPath(PathOf(RepoBin))
       THEN /\ bin' = StrOf(RepoBin)
            /\ pc' = "goos"
       ELSE /\ bin' = bin
            /\ pc' = "select_gobin"
    /\ UNCHANGED << entry, step, PATH, cache, envRuns, log, files, tmp,
                    result, goVars, binary, platform, architecture, genVars >>

\* select_bin_directory, bin = go_env("GOBIN"): the str that go_env returns
\* is looked up in the set of pathlib.Path.
select_bin_gobin ==
    /\ pc = "select_gobin"
    /\ \E code \in GoOutcomes, output \in EnvOutputs("GOBIN") :
        LET r == go_env("GOBIN", code, output) IN
        /\ cache' = r.cache
        /\ log' = r.log
        /\ envRuns' = r.runs
        /\ IF r.raised
           THEN /\ Raise(r.msg)
                /\ bin' = bin
           ELSE /\ step' = step
                /\ result' = result
                /\ IF InPath(StrOf(r.value))
                   THEN /\ bin' = StrOf(r.value)
                        /\ pc' = "goos"
                   ELSE /\ bin' = bin
                        /\ pc' = "select_goroot"
    /\ UNCHANGED << entry, PATH, files, tmp, goVars, binary, platform,
                    architecture, genVars >>

\* select_bin_directory, the 'bin' directory under go_env("GOROOT"), and the
\* exception when no directory was found.
select_bin_goroot ==
    /\ pc = "select_goroot"
    /\ \E code \in GoOutcomes, output \in EnvOutputs("GOROOT") :
        LET r == go_env("GOROOT", code, output) IN
        /\ cache' = r.cache
        /\ log' = r.log
        /\ envRuns' = r.runs
        /\ IF r.raised
           THEN /\ Raise(r.msg)
                /\ bin' = bin
           ELSE IF InPath(BinUnder(r.value))
           THEN /\ bin' = StrOf(BinUnder(r.value).v)
                /\ pc' = "goos"
                /\ step' = step
                /\ result' = result
           ELSE /\ Raise(ErrNoBin)
                /\ bin' = bin
    /\ UNCHANGED << entry, PATH, files, tmp, goVars, binary, platform,
                    architecture, genVars >>

select_bin_directory ==
    \/ select_bin_project
    \/ select_bin_gobin
    \/ select_bin_goroot

\* ---------------------------------------------- release-artifact installers

\* platform = go_env("GOOS")
release_platform ==
    /\ pc = "goos"
    /\ \E code \in GoOutcomes, output \in EnvOutputs("GOOS") :
        LET r == go_env("GOOS", code, output) IN
        /\ cache' = r.cache
        /\ log' = r.log
        /\ envRuns' = r.runs
        /\ IF r.raised
           THEN /\ Raise(r.msg)
                /\ platform' = platform
           ELSE /\ platform' = r.value
                /\ pc' = "goarch"
                /\ step' = step
                /\ result' = result
    /\ UNCHANGED << entry, PATH, files, tmp, goVars, binary, bin,
                    architecture, genVars >>

\* architecture = go_env("GOARCH"); install_spectral renames amd64.
release_architecture ==
    /\ pc = "goarch"
    /\ \E code \in GoOutcomes, output \in EnvOutputs("GOARCH") :
        LET r == go_env("GOARCH", code, output) IN
        /\ cache' = r.cache
        /\ log' = r.log
        /\ envRuns' = r.runs
        /\ IF r.raised
           THEN /\ Raise(r.msg)
                /\ architecture' = architecture
           ELSE /\ architecture' =
                    IF Installer = "install_spectral" /\ r.value = "amd64"
                    THEN "x64" ELSE r.value
                /\ pc' = IF Installer = "install_golangci_lint"
                         THEN "fetch" ELSE "download"
                /\ step' = step
                /\ result' = result
    /\ UNCHANGED << entry, PATH, files, tmp, goVars, binary, bin,
                    platform, genVars >>

\* What a command that writes one file leaves behind: the whole file when
\* it exits with 0, nothing or a part of it otherwise.
Written(code) == IF code = 0 THEN {"plain"} ELSE {"absent", "partial"}

\* install_opm, install_operator_sdk, install_spectral: curl writes the
\* binary into the selected directory, through command.run.
release_download ==
    /\ pc = "download"
    /\ \E code \in Outcomes :
        /\ log' = Append(log, Cmd("curl", <<ReleaseBinary(Installer), platform,
                                           architecture, bin.v>>, "", code))
        /\ IF RunRaises(code)
           THEN /\ Raise(ErrOSError)
                /\ files' = files
           ELSE /\ \E left \in Written(code) :
                    files' = [files EXCEPT ![ReleaseBinary(Installer)] = left]
                /\ pc' = "chmod"
                /\ step' = step
                /\ result' = result
    /\ UNCHANGED << entry, PATH, cache, envRuns, tmp, goVars, binary, bin,
                    platform, architecture, genVars >>

\* os.stat(file), which raises when the file does not exist, and os.chmod
\* with the execution permission added.
release_chmod ==
    /\ pc = "chmod"
    /\ IF files[ReleaseBinary(Installer)] = "absent"
       THEN /\ Raise("FileNotFoundError")
            /\ UNCHANGED << files, log >>
       ELSE /\ files' = [files EXCEPT ![ReleaseBinary(Installer)] =
                            IF @ = "partial" THEN "partial-exec" ELSE "exec"]
            /\ log' = Append(log, Cmd("fs:chmod", <<ReleaseBinary(Installer)>>, "", 0))
            /\ Return
    /\ UNCHANGED << entry, PATH, cache, envRuns, tmp, goVars, binary, bin,
                    platform, architecture, genVars >>

\* An install_golangci_lint that does not remove the directory.
FinallyKeeps(l) ==
    /\ tmp' = tmp
    /\ log' = l

\* The finally clause of install_golangci_lint: shutil.rmtree(tmp).
Finally(l) ==
    /\ tmp' = "removed"
    /\ log' = Append(l, Cmd("fs:rmtree", <<"tmp">>, "", 0))

\* install_golangci_lint: tempfile.mkdtemp and the download of the tarball
\* into the temporary directory.
golangci_fetch ==
    /\ pc = "fetch"
    /\ \E code \in Outcomes :
        LET l1 == Append(log, Cmd("fs:mkdtemp", <<"tmp">>, "", 0))
            l2 == Append(l1, Cmd("curl", <<"golangci-lint", platform,
                                           architecture, "tmp">>, "", code))
        IN  IF RunRaises(code)
            THEN /\ Finally(l2)
                 /\ Raise(ErrOSError)
                 /\ files' = files
            ELSE /\ tmp' = "exists"
                 /\ log' = l2
                 /\ \E left \in Written(code) :
                        files' = [files EXCEPT !["tarball"] = left]
                 /\ pc' = "verify"
                 /\ step' = step
                 /\ result' = result
    /\ UNCHANGED << entry, PATH, cache, envRuns, goVars, binary, bin,
                    platform, architecture, genVars >>

\* install_golangci_lint: the digest file is written and 'sha256sum --check'
\* runs on it, through command.run.
golangci_verify ==
    /\ pc = "verify"
    /\ \E wrote \in BOOLEAN, code \in Outcomes :
        IF ~wrote
        THEN /\ Finally(log)
             /\ Raise(ErrOSError)
             /\ files' = [files EXCEPT !["tarball"] = "absent"]
        ELSE LET l1 == Append(log, Cmd("fs:write", <<"digest">>, "", 0))
                 l2 == Append(l1, Cmd("sha256sum", <<"digest">>, "", code))
             IN  IF RunRaises(code)
                 THEN /\ Finally(l2)
                      /\ Raise(ErrOSError)
                      /\ files' = [files EXCEPT !["tarball"] = "absent"]
                 ELSE /\ log' = l2
                      /\ tmp' = tmp
                      /\ files' = [files EXCEPT !["digest"] = "plain"]
                      /\ pc' = "extract"
                      /\ step' = step
                      /\ result' = result
    /\ UNCHANGED << entry, PATH, cache, envRuns, goVars, binary, bin,
                    platform, architecture, genVars >>

\* What tar leaves in the install directory: the binary with the mode of
\* the archive when it exits with 0, nothing or a part of it otherwise.
Extracted(code) == IF code = 0 THEN {"exec"} ELSE {"absent", "partial"}

\* install_golangci_lint: tar extracts the binary into the selected
\* directory, through command.run; then the finally clause.
golangci_extract ==
    /\ pc = "extract"
    /\ \E code \in Outcomes :
        LET l1 == Append(log, Cmd("tar", <<"golangci-lint", platform,
                                           architecture, bin.v>>, "", code))
        IN  /\ Finally(l1)
            /\ IF RunRaises(code)
               THEN /\ Raise(ErrOSError)
                    /\ files' = [files EXCEPT !["tarball"] = "absent",
                                              !["digest"] = "absent"]
               ELSE /\ \E left \in Extracted(code) :
                        files' = [files EXCEPT !["golangci-lint"] = left,
                                               !["tarball"] = "absent",
                                               !["digest"] = "absent"]
                    /\ Return
    /\ UNCHANGED << entry, PATH, cache, envRuns, goVars, binary, bin,
                    platform, architecture, genVars >>

release_install ==
    \/ release_check
    \/ release_platform
    \/ release_architecture
    \/ release_download
    \/ release_chmod

install_golangci_lint ==
    \/ golangci_fetch
    \/ golangci_verify
    \/ golangci_extract

\* ---------------------------------------------------------------- generate

\* The callback of the 'generate' group: with a subcommand it returns and
\* click invokes the subcommand; without one it invokes the four steps.
generate ==
    /\ pc = "generate"
    /\ queue' = IF entry.sub # NoneV THEN << entry.sub >> ELSE GenerateSteps
    /\ bundleStep' = 1
    /\ pc' = "step"
    /\ UNCHANGED << entry, step, PATH, cache, envRuns, log, files, tmp,
                    result, goVars, binary, bin, platform, architecture >>

\* The step that was invoked returns: the next one is invoked, or the
\* command ends.
StepReturns ==
    /\ queue' = Tail(queue)
    /\ bundleStep' = 1
    /\ IF Tail(queue) = <<>>
       THEN /\ pc' = "done"
            /\ result' = "ok"
       ELSE /\ pc' = "step"
            /\ result' = result

\* A step with one command, run through command.run.
OneCommand(name, cmd, args) ==
    /\ pc = "step"
    /\ Head(queue) = name
    /\ \E code \in Outcomes :
        /\ log' = Append(log, Cmd(cmd, args, "", code))
        /\ IF RunRaises(code)
           THEN /\ pc' = "done"
                /\ result' = ErrOSError
                /\ UNCHANGED genVars
           ELSE StepReturns
    /\ UNCHANGED << entry, step, PATH, cache, envRuns, files, tmp, goVars,
                    binary, bin, platform, architecture >>

mocks == OneCommand("mocks", "go generate", << "./..." >>)

manifests ==
    OneCommand("manifests", "controller-gen",
               << "rbac:roleName=manager-role", "crd", "webhook", "paths=./...",
                  "output:crd:artifacts:config=config/crd/bases" >>)

deep_copy ==
    OneCommand("deep_copy", "controller-gen",
               << "object:headerFile=hack/boilerplate.go.txt", "paths=./..." >>)

\* The four commands of 'generate bundle'.
BundleCommands(image) ==
    << [cmd |-> "operator-sdk",
        arg |-> << "generate", "kustomize", "manifests", "--quiet",
                   "--apis-dir", "api" >>],
       [cmd |-> "kustomize",
        arg |-> << "edit", "set", "image", "controller=" >> \o image],
       [cmd |-> "kustomize", arg |-> << "build", "config/manifests" >>],
       [cmd |-> "operator-sdk", arg |-> << "bundle", "validate", "./bundle" >>] >>

\* generate bundle: its next command, run through command.run.
bundle ==
    /\ pc = "step"
    /\ Head(queue) = "bundle"
    /\ \E code \in Outcomes :
        LET c == BundleCommands(entry.image)[bundleStep] IN
        /\ log' = Append(log, Cmd(c.cmd, c.arg, "", code))
        /\ IF RunRaises(code)
           THEN /\ pc' = "done"
                /\ result' = ErrOSError
                /\ UNCHANGED genVars
           ELSE IF bundleStep < Len(BundleCommands(entry.image))
           THEN /\ bundleStep' = bundleStep + 1
                /\ UNCHANGED << pc, result, queue >>
           ELSE StepReturns
    /\ UNCHANGED << entry, step, PATH, cache, envRuns, files, tmp, goVars,
                    binary, bin, platform, architecture >>

\* ------------------------------------------------------------ build, push

\* DefaultGroup with default_if_no_args: without arguments the default
\* subcommand is invoked.
Subcommand(sub, default) == IF sub = NoneV THEN default ELSE sub

\* A 'push' group whose default is the bundle image.
PushDefaultBundle == "bundle-image"

\* The default subcommand of the 'push' group.
PushDefault == "image"

\* An option of click: its default when it is not on the command line.
Option(value, default) == IF value = NoneV THEN default ELSE value

\* f"{repository}:{tag}": the pieces of the string, in order.
ImageReference(repository, tag) == << repository, ":", tag >>

\* The exit status of the process: 0 when cli() returns, 1 when an
\* exception leaves it.
ExitStatus == IF result = "ok" THEN 0 ELSE 1

\* A command function that runs one command through command.run and
\* returns.  Each argument is the sequence of the pieces of its string.
RunOne(at, cmd, args) ==
    /\ pc = at[1]
    /\ at[2] = at[3]
    /\ \E code \in Outcomes :
        /\ log' = Append(log, Cmd(cmd, args, "", code))
        /\ pc' = "done"
        /\ result' = IF RunRaises(code) THEN ErrOSError ELSE "ok"
    /\ UNCHANGED << entry, step, PATH, cache, envRuns, files, tmp, goVars,
                    binary, bin, platform, architecture, genVars >>

\* The default subcommand of the 'build' group.
BuildDefault == "binary"

\* The subcommand click invokes after the callback of the group; 'at' for
\* RunOne is the position, the invoked subcommand and the subcommand of the
\* function.
BuildInvoked(name) ==
    << "build_invoke", Subcommand(entry.sub, BuildDefault), name >>

PushInvoked(name) ==
    << "push_invoke", Subcommand(entry.sub, PushDefault), name >>

\* The 'build' group: its callback does nothing; the subcommand, or
\* 'binary' without arguments, is invoked.
build ==
    /\ pc = "build"
    /\ pc' = "build_invoke"
    /\ UNCHANGED << entry, step, PATH, cache, envRuns, log, files, tmp,
                    result, goVars, binary, bin, platform, architecture,
                    genVars >>

\* build binary: 'go build'.
build_binary == RunOne(BuildInvoked("binary"), "go", << <<"build">> >>)

\* build image: 'podman build --tag <repository>:<tag> --file Containerfile'.
build_image ==
    RunOne(BuildInvoked("image"), "podman",
           << <<"build">>, <<"--tag">>,
              ImageReference(Option(entry.repository, IMAGE_REPOSITORY),
                             Option(entry.tag, IMAGE_TAG)),
              <<"--file">>, <<"Containerfile">> >>)

\* build bundle-image: the list of arguments as Python reads it.  There is
\* no comma between the f-string and ".", so the two literals are one
\* string.
BuildBundleImageArgs(repository, tag) ==
    << <<"build">>, <<"--file">>, <<"bundle.Dockerfile">>, <<"--tag">>,
       ImageReference(repository, tag) \o <<".">> >>

build_bundle_image ==
    RunOne(BuildInvoked("bundle-image"), "podman",
           BuildBundleImageArgs(Option(entry.repository, IMAGE_REPOSITORY),
                                Option(entry.tag, IMAGE_TAG)))

\* The 'push' group: the subcommand, or 'image' without arguments.
push ==
    /\ pc = "push"
    /\ pc' = "push_invoke"
    /\ UNCHANGED << entry, step, PATH, cache, envRuns, log, files, tmp,
                    result, goVars, binary, bin, platform, architecture,
                    genVars >>

\* push image: 'podman push <repository>:<tag>'.
push_image ==
    RunOne(PushInvoked("image"), "podman",
           << <<"push">>,
              ImageReference(Option(entry.repository, IMAGE_REPOSITORY),
                             Option(entry.tag, IMAGE_TAG)) >>)

\* push bundle-image: 'podman push <repository>:<tag>' with the defaults of
\* the catalog bundle image.
push_bundle_image ==
    RunOne(PushInvoked("bundle-image"), "podman",
           << <<"push">>,
              ImageReference(Option(entry.repository, BUNDLE_IMAGE_REPOSITORY),
                             Option(entry.tag, BUNDLE_IMAGE_TAG)) >>)

Next ==
    \/ Start
    \/ SetupNext
    \/ install_go
    \/ go_install
    \/ select_bin_directory
    \/ release_install
    \/ install_golangci_lint
    \/ generate
    \/ mocks
    \/ manifests
    \/ deep_copy
    \/ bundle
    \/ build
    \/ build_binary
    \/ build_image
    \/ build_bundle_image
    \/ push
    \/ push_image
    \/ push_bundle_image

Spec == Init /\ [][Next]_vars

\* ------------------------------------------------------------------ claims

\* The entries of the log that are external commands of the given name.
Runs(name) == SelectSeq(log, LAMBDA e : e.cmd = name)

\* The filesystem operations of the log.
FsOps == SelectSeq(log, LAMBDA e : e.cmd \in {"fs:mkdtemp", "fs:write",
                                              "fs:chmod", "fs:rmtree"})

\* Nothing was written to an install directory or a temporary directory.
NothingWritten ==
    /\ \A f \in DOMAIN files : files[f] = "absent"
    /\ tmp = "none"

\* C1: an installer that finds the binary of its tool on the search path has
\* returned successfully, and its call ran no external command and did no
\* filesystem write or permission change.
C1_AlreadyInstalledNoEffect ==
    (binary # Unset /\ binary # NoneV) =>
        /\ log = <<>>
        /\ pc \in {"setup", "done"}
        /\ result \in {"running", "ok"}

\* A release-artifact installer of setup found its binary and returned.
C1_Witness ==
    /\ binary \in ReleaseBinaries
    /\ pc = "setup"
    /\ step > 1
    /\ log = <<>>

\* The candidate of select_bin_directory the claim names: the first of the
\* four directories, in order, that is an entry of PATH ("" when none is).
\* The directories of 'go env' count once the variable has been read.
FirstCandidateInPath ==
    IF PathOf(LocalBin) \in PATH THEN LocalBin
    ELSE IF PathOf(RepoBin) \in PATH THEN RepoBin
    ELSE IF cache["GOBIN"] # NoneV /\ PathOf(cache["GOBIN"]) \in PATH
    THEN cache["GOBIN"]
    ELSE IF cache["GOROOT"] # NoneV /\ BinUnder(cache["GOROOT"]) \in PATH
    THEN BinUnder(cache["GOROOT"]).v
    ELSE ""

\* C2: select_bin_directory returns the first candidate, in the order
\* .local/bin, bin, GOBIN, GOROOT/bin, that is an entry of PATH, and raises
\* only when none is.
C2_FirstCandidateWins ==
    /\ bin # NoBin => bin.v = FirstCandidateInPath
    /\ result = ErrNoBin => FirstCandidateInPath = ""

\* No directory that can be a candidate is an entry of PATH, whatever
\* 'go env' prints.
NoCandidateInPath ==
    /\ PathOf(LocalBin) \notin PATH
    /\ PathOf(RepoBin) \notin PATH
    /\ \A d \in EnvOutputs("GOBIN") : PathOf(d) \notin PATH
    /\ \A r \in EnvOutputs("GOROOT") : BinUnder(r) \notin PATH

\* A release-artifact installer of setup is running, or has ended the
\* invocation, and its binary was not on the search path.
ReleaseInstalling ==
    /\ entry.cmd = "setup"
    /\ step \in 1..Len(SetupOrder)
    /\ SetupOrder[step] \in ReleaseInstallers
    /\ pc # "setup"
    /\ binary = NoneV

\* C3 as stated: with no candidate in PATH a release-artifact installer
\* ends with the 'Failed to select a suitable binaries directory' error.
C3_AlwaysNoBinError ==
    (ReleaseInstalling /\ NoCandidateInPath /\ pc = "done") => result = ErrNoBin

\* C3 as amended: with no candidate in PATH a release-artifact installer
\* never gets past the selection of the directory, runs no download,
\* checksum or extraction command and writes nothing; it fails with the
\* 'Failed to select a suitable binaries directory' error when both 'go env'
\* queries succeeded, and with the error of the failed query otherwise.
C3_NoCandidateFailsBeforeDownload ==
    (ReleaseInstalling /\ NoCandidateInPath) =>
        /\ pc \in {"select_bin", "select_gobin", "select_goroot", "done"}
        /\ bin = NoBin
        /\ Runs("curl") = <<>> /\ Runs("sha256sum") = <<>> /\ Runs("tar") = <<>>
        /\ FsOps = <<>>
        /\ NothingWritten
        /\ pc = "done" =>
            /\ result \in {ErrNoBin, ErrGoEnv}
            /\ (cache["GOBIN"] # NoneV /\ cache["GOROOT"] # NoneV)
                    <=> result = ErrNoBin

\* The selection failed with its own error after both queries succeeded.
C3_Witness ==
    /\ ReleaseInstalling
    /\ NoCandidateInPath
    /\ result = ErrNoBin
    /\ Len(Runs("go env")) = 2

\* A go_install call that looks the version up: no explicit version, and
\* the binary is not on the search path.
LooksUp == versionArg = NoneV /\ tool # <<>> /\ binary = NoneV

\* C4: the lookups of go_install start with the complete tool path and go
\* on with the prefixes, each one segment shorter than the one before.
C4_ProbesFromCompletePath ==
    LooksUp =>
        \A k \in 1..Len(Runs("go list")) :
            Runs("go list")[k].arg = Package(tool, Len(tool) - k + 1)

\* C5: the first lookup that exits with 0 is the last lookup, and the
\* version of 'go install' is the output of that lookup.
C5_FirstSuccessEndsProbing ==
    LooksUp =>
        LET L == Runs("go list") IN
        /\ \A k \in 1..Len(L) : L[k].out = 0 => k = Len(L)
        /\ \A k \in 1..Len(Runs("go install")) :
            (L # <<>> /\ L[Len(L)].out = 0) =>
                Runs("go install")[k].ver = L[Len(L)].text

\* A failed lookup printed one version, the next lookup succeeded with
\* another, and 'go install' ran.
C5_Witness ==
    /\ LooksUp
    /\ Len(Runs("go list")) = 2
    /\ Runs("go list")[1].out # 0
    /\ Runs("go list")[2].out = 0
    /\ Runs("go list")[1].text # Runs("go list")[2].text
    /\ Len(Runs("go install")) = 1

\* C6: without an explicit version and without a successful lookup,
\* go_install fails with the 'Failed to find version' error and never runs
\* 'go install'.
C6_NoVersionNoInstall ==
    (LooksUp /\ \A k \in 1..Len(Runs("go list")) : Runs("go list")[k].out # 0) =>
        /\ Runs("go install") = <<>>
        /\ pc = "done" => result \in {ErrNoVersion, ErrOSError}

\* C7: with an explicit version go_install runs no lookup, and the version
\* of 'go install' is the version that was passed.
C7_ExplicitVersionNoLookup ==
    (versionArg # NoneV) =>
        /\ Runs("go list") = <<>>
        /\ \A k \in 1..Len(Runs("go install")) :
            /\ Runs("go install")[k].ver = versionArg
            /\ Runs("go install")[k].arg = tool

\* 'go install' ran for a call with an explicit version.
C7_Witness ==
    /\ versionArg # NoneV
    /\ binary = NoneV
    /\ Len(Runs("go install")) = 1

\* C8: in install_golangci_lint the checksum command runs after the
\* download and before the extraction, and the extraction never runs after
\* a checksum command that exited with a non-zero code.
C8_FailedChecksumStopsExtraction ==
    \A j, k \in 1..Len(log) :
        /\ (log[j].cmd = "sha256sum" /\ log[k].cmd = "curl") => k < j
        /\ (log[j].cmd = "sha256sum" /\ log[k].cmd = "tar") => j < k
        /\ (log[j].cmd = "sha256sum" /\ log[j].out # 0) => log[k].cmd # "tar"

\* C9: setup checks for 'go' before any other tool; when 'go' is missing it
\* fails with the "The 'go' tool isn't available" error, and no installer,
\* external command or filesystem write has happened.
C9_GoCheckedFirst ==
    entry.cmd = "setup" =>
        /\ pc \notin {"start", "setup", "install_go", "done"} => step > 1
        /\ (step = 1 /\ pc = "done") =>
            (binary = NoneV /\ result = ErrGoMissing)
        /\ result = ErrGoMissing =>
            /\ step = 1
            /\ binary = NoneV
            /\ log = <<>>
            /\ \A v \in EnvVars : envRuns[v] = 0
            /\ NothingWritten

\* setup ended because 'go' is not on the search path.
C9_Witness ==
    /\ entry.cmd = "setup"
    /\ pc = "done"
    /\ result = ErrGoMissing

\* The commands of 'generate' without a subcommand, in the order of the
\* steps mocks, manifests, deep-copy, bundle.
GenerateCommands ==
    << "go generate", "controller-gen", "controller-gen", "operator-sdk",
       "kustomize", "kustomize", "operator-sdk" >>

\* C10: 'generate' without a subcommand runs the commands of mocks,
\* manifests, deep-copy and bundle in that order, and no command runs after
\* one that exited with a non-zero code.
C10_GenerateAbortsAtFirstFailure ==
    (entry.cmd = "generate" /\ entry.sub = NoneV) =>
        /\ Len(log) <= Len(GenerateCommands)
        /\ \A k \in 1..Len(log) : log[k].cmd = GenerateCommands[k]
        /\ \A k \in 1..(Len(log) - 1) : log[k].out = 0

\* C11: 'build' without a subcommand runs exactly one external command,
\* 'go build' without further arguments, and the exit status of the
\* invocation is the exit status of that command.
C11_BuildExitStatus ==
    (entry.cmd = "build" /\ entry.sub = NoneV /\ pc = "done") =>
        /\ Len(log) = 1
        /\ log[1].cmd = "go"
        /\ log[1].arg = << <<"build">> >>
        /\ log[1].out \in ExitCodes => ExitStatus = log[1].out

\* C12: 'push' without a subcommand runs exactly one external command,
\* 'podman push' of the default repository and tag, which is not the
\* reference of the bundle image.
C12_PushDefaultsToImage ==
    (entry.cmd = "push" /\ entry.sub = NoneV) =>
        /\ Len(log) <= 1
        /\ pc = "done" => Len(log) = 1
        /\ \A k \in 1..Len(log) :
            /\ log[k].cmd = "podman"
            /\ log[k].arg = << <<"push">>,
                               << "quay.io/openshift-kni/oran-o2ims", ":",
                                  "latest" >> >>
            /\ log[k].arg[2] # << BUNDLE_IMAGE_REPOSITORY, ":", BUNDLE_IMAGE_TAG >>

\* 'push' without a subcommand has run its command and ended.
C12_Witness ==
    /\ entry.cmd = "push"
    /\ entry.sub = NoneV
    /\ pc = "done"
    /\ result = "ok"
    /\ Len(log) = 1

\* The binaries of the installers that do not verify what they download.
UnverifiedBinaries == {"opm", "operator-sdk", "spectral"}

\* C13: in install_opm, install_operator_sdk and install_spectral, after a
\* download command that exited with a non-zero code the install ends with
\* a failure and the execution permission is never granted to the file,
\* whether the download left a part of the file or not.
C13_FailedDownloadNoPermission ==
    \A k \in 1..Len(log) :
        (/\ log[k].cmd = "curl"
         /\ log[k].arg[1] \in UnverifiedBinaries
         /\ log[k].out \in ExitCodes \ {0}) =>
            /\ Runs("fs:chmod") = <<>>
            /\ files[log[k].arg[1]] \in {"absent", "partial"}
            /\ pc \in {"chmod", "done"}
            /\ pc = "done" => result \notin {"running", "ok"}

\* C14: 'go env <var>' runs at most once for each variable in one process,
\* a cached variable was read by exactly one run, and the values the
\* installers got from go_env are the cached ones.
C14_GoEnvRunsOnce ==
    /\ \A v \in EnvVars :
        /\ envRuns[v] <= 1
        /\ cache[v] # NoneV => envRuns[v] = 1
    /\ bin # NoBin =>
        \/ bin.v \in {LocalBin, RepoBin}
        \/ cache["GOROOT"] # NoneV /\ bin.v = BinUnder(cache["GOROOT"]).v
    /\ platform # Unset => platform = cache["GOOS"]
    /\ architecture # Unset =>
        \/ architecture = cache["GOARCH"]
        \/ architecture = "x64" /\ cache["GOARCH"] = "amd64"

\* An installer after the first one got the platform from the cache: its
\* call ran no 'go env'.
C14_Witness ==
    /\ entry.cmd = "setup"
    /\ pc = "goarch"
    /\ ReleaseBinary(SetupOrder[step]) \in UnverifiedBinaries
    /\ platform = cache["GOOS"]
    /\ envRuns["GOOS"] = 1
    /\ Runs("go env") = <<>>

\* C15: the temporary directory of install_golangci_lint exists only while
\* the download, checksum and extraction steps are running; on every way
\* out of the install, by return or by exception, it has been removed.
C15_TemporaryDirectoryRemoved ==
    /\ tmp = "exists" =>
        /\ pc \in {"verify", "extract"}
        /\ SetupOrder[step] = "install_golangci_lint"
    /\ (Runs("fs:mkdtemp") # <<>> /\ pc \notin {"verify", "extract"}) =>
        /\ tmp = "removed"
        /\ log[Len(log)].cmd = "fs:rmtree"
        /\ files["tarball"] = "absent" /\ files["digest"] = "absent"

\* The checksum command could not be started: the exception left the
\* install after the directory was removed.
C15_Witness ==
    /\ pc = "done"
    /\ result = ErrOSError
    /\ Runs("sha256sum") # <<>>
    /\ tmp = "removed"

\* C16: 'build bundle-image' runs 'podman build' with '<repository>:<tag>'
\* as the argument after '--tag', the reference 'push bundle-image' pushes
\* for the same repository and tag, and with '.' as the last argument.
C16_BundleImageTagAndContext ==
    (/\ entry.cmd = "build"
     /\ entry.sub = "bundle-image"
     /\ entry.repository # NoneV
     /\ entry.tag # NoneV
     /\ log # <<>>) =>
        LET a == log[1].arg IN
        /\ log[1].cmd = "podman"
        /\ a[Len(a)] = <<".">>
        /\ \E k \in 1..(Len(a) - 1) :
            /\ a[k] = <<"--tag">>
            /\ a[k + 1] = << entry.repository, ":", entry.tag >>

====
